---------------------------- MODULE Spec2Model ----------------------------
(* A model of rgbpixel.RGBPixel (src/rgbpixel.py): a one-pixel "strip"     *)
(* holding an (r, g, b) value, an optional scaler, and three machine.PWM   *)
(* channels that write() drives with 10-bit duty values.                   *)
(*                                                                         *)
(* machine.PWM is MicroPython's, not this repository's.  A channel is      *)
(* modelled by what the driver can observe of it: it is created with       *)
(* duty = 0, each duty(v) call either takes v or raises, and a call that   *)
(* raises leaves the channel as it was.                                    *)
EXTENDS Integers, Sequences, FiniteSets

VARIABLES
    obj,      \* "none": no RGBPixel object; "live": __init__ has returned
    scaler,   \* self.scaler
    value,    \* <<self.red['value'], self.green['value'], self.blue['value']>>
    created,  \* the channels whose machine.PWM object has been created
    duty,     \* the duty each PWM channel holds, red, green, blue
    calls,    \* the collaborator calls of the most recent write(), in order
    commits,  \* how many times write() has run on the object
    streak,   \* how many times write() has run since __setitem__ last stored a value
    op,       \* the most recent operation
    err,      \* the exception it raised, or "none"
    ret,      \* what it returned
    arg,      \* the value __setitem__ most recently stored, as it was passed
    cfg       \* the <<n, bpp>> most recently passed to the constructor

vars == <<obj, scaler, value, created, duty, calls, commits, streak, op, err, ret, arg, cfg>>

---------------------------------------------------------------------------
(* Bounds of the model *)

MaxCommits == 3     \* write() runs at most this often on one object
MaxIndex == 1       \* indices are drawn from -MaxIndex..MaxIndex
MaxN == 2           \* n is drawn from -1..MaxN
MaxBpp == 4         \* bpp is drawn from 1..MaxBpp

---------------------------------------------------------------------------
(* Python's integer operators *)

\* x % 256 and x >> 6 on Python ints: floor semantics, also for negative x.
PixelModulus == 256

RECURSIVE Pow2(_)
Pow2(n) == IF n = 0 THEN 1 ELSE 2 * Pow2(n - 1)

FloorDiv(x, d) == IF x >= 0 THEN x \div d ELSE -((-x + d - 1) \div d)

Shl(x, n) == x * Pow2(n)

Shr(x, n) == FloorDiv(x, Pow2(n))

\* a | b on Python ints (two's complement of unbounded width)
RECURSIVE BitOr(_, _)
BitOr(a, b) ==
    IF a = 0 THEN b
    ELSE IF b = 0 THEN a
    ELSE IF a = -1 \/ b = -1 THEN -1
    ELSE LET la == a - 2 * FloorDiv(a, 2)
             lb == b - 2 * FloorDiv(b, 2)
         IN  2 * BitOr(FloorDiv(a, 2), FloorDiv(b, 2))
               + (IF la = 1 \/ lb = 1 THEN 1 ELSE 0)

\* round(x * m) for an int x and the float m = num/den (den > 0): the
\* product rounded to the nearest integer, a tie going to the even one.
RoundMul(x, m) ==
    LET p == x * m[1]
        q == FloorDiv(p, m[2])
        r == p - q * m[2]
    IN  IF 2 * r > m[2] THEN q + 1
        ELSE IF 2 * r < m[2] THEN q
        ELSE IF q % 2 = 0 THEN q ELSE q + 1

---------------------------------------------------------------------------
(* The scaler *)

\* A float multiplier is the pair <<numerator, denominator>> of its decimal
\* literal.  For every stored value 0..255 and each multiplier below, the
\* float product rounds to the same integer as the exact one, in double and
\* in single precision.
Unity == <<1, 1>>

NoFunc == "none"

NoScaler == [kind |-> "none", m |-> <<Unity, Unity, Unity>>, f |-> NoFunc]

LinearScaler(m) == [kind |-> "linear", m |-> m, f |-> NoFunc]

FuncScaler(f) == [kind |-> "func", m |-> <<Unity, Unity, Unity>>, f |-> f]

\* The multiplier triples a caller passes as scaler: the one of the
\* repository's test, one with a multiplier above 1, one halving.
LinearScalers ==
    { <<<<1, 10>>, <<4, 10>>, <<9, 10>>>>,
      <<<<2, 1>>, <<1, 1>>, <<1, 2>>>>,
      <<<<1, 2>>, <<1, 2>>, <<1, 1>>>> }

\* The callables a caller passes as scaler: the class's two presets, the
\* test's unity_scaler, and three of the caller's own.
FuncNames == {"lumi", "photopic", "unity", "swap", "invert", "double"}

Scalers ==
    {NoScaler} \cup {LinearScaler(m) : m \in LinearScalers}
               \cup {FuncScaler(f) : f \in FuncNames}

\* self.scaler(pixel) for the callable named f
CallScaler(f, pixel) ==
    CASE f = "lumi" ->
           <<pixel[1], RoundMul(pixel[2], <<3182, 10000>>), RoundMul(pixel[3], <<875, 1000>>)>>
      [] f = "photopic" ->
           <<RoundMul(pixel[1], <<2521, 10000>>), RoundMul(pixel[2], <<1056, 10000>>), pixel[3]>>
      [] f = "unity"  -> <<pixel[1], pixel[2], pixel[3]>>
      [] f = "swap"   -> <<pixel[3], pixel[2], pixel[1]>>
      [] f = "invert" -> <<255 - pixel[1], 255 - pixel[2], 255 - pixel[3]>>
      [] f = "double" -> <<2 * pixel[1], 2 * pixel[2], 2 * pixel[3]>>

\* write(), the scaler step: the (red, green, blue) to expand
Scaled(sc, pixel) ==
    IF sc.kind = "func" THEN CallScaler(sc.f, pixel)
    ELSE IF sc.kind = "linear" THEN
        <<RoundMul(pixel[1], sc.m[1]), RoundMul(pixel[2], sc.m[2]), RoundMul(pixel[3], sc.m[3])>>
    ELSE pixel

\* Mutant: a plain scale by 4, the top bits not folded into the low ones
ExpandShiftOnly(v) == Shl(v, 2)

\* write(), the 8 to 10 bit step: ( v << 2 ) | ( v >> 6 )
Expand(v) == BitOr(Shl(v, 2), Shr(v, 6))

\* Mutant: the expansion one bit too wide
DutyValuesTooWide(sc, pixel) ==
    LET s == Scaled(sc, pixel)
    IN  <<BitOr(Shl(s[1], 3), Shr(s[1], 5)), BitOr(Shl(s[2], 3), Shr(s[2], 5)),
          BitOr(Shl(s[3], 3), Shr(s[3], 5))>>

\* The three duty values write() computes before it calls any channel
DutyValues(sc, pixel) ==
    LET s == Scaled(sc, pixel)
    IN  <<Expand(s[1]), Expand(s[2]), Expand(s[3])>>

---------------------------------------------------------------------------
(* The PWM channels *)

Channels == <<"red", "green", "blue">>

Call(ch, v) == [ch |-> ch, val |-> v]

\* Mutant: the channels called in the order blue, green, red
WriteCallsReversed(sc, d, fault) ==
    (IF sc.kind = "func" THEN <<Call("scaler", 0)>> ELSE <<>>)
      \o [i \in 1..(IF fault = 0 THEN 3 ELSE fault) |-> Call(Channels[4 - i], d[4 - i])]

\* The calls one write() makes, in order: the scaler when it is callable,
\* then duty() on red, green and blue; a duty() call that raises is the
\* last one.  fault = 0: no call raises; fault = k: the k-th duty() raises.
WriteCalls(sc, d, fault) ==
    (IF sc.kind = "func" THEN <<Call("scaler", 0)>> ELSE <<>>)
      \o [i \in 1..(IF fault = 0 THEN 3 ELSE fault) |-> Call(Channels[i], d[i])]

\* Mutant: a failed write() puts back the duty the channels held before it
DutyAfterRollback(old, d, fault) == IF fault = 0 THEN d ELSE old

\* The duty each channel holds after those calls
DutyAfter(old, d, fault) ==
    [i \in 1..3 |-> IF fault = 0 \/ i < fault THEN d[i] ELSE old[i]]

PWMError(fault) == IF fault = 0 THEN "none" ELSE "PWMError"

---------------------------------------------------------------------------
(* The pixel value *)

\* Mutant: the remainder truncated toward zero, as C's % computes it
normalizeTruncated(x) == IF x >= 0 THEN x % PixelModulus ELSE -((-x) % PixelModulus)

normalize(x) == x % PixelModulus

\* __setitem__, the three assignments
Stored(v) == <<normalize(v[1]), normalize(v[2]), normalize(v[3])>>

\* Mutant: the index taken as a list index, -1 naming the last (only) pixel
IndexOkListLike(index) == index \in {0, -1}

\* The index check of __setitem__ and __getitem__
IndexOk(index) == index = 0

\* Mutant: bpp not checked
ConfigErrorOnlyN(n, bpp) == n # 1

\* The argument checks of __init__
ConfigError(n, bpp) == n # 1 \/ bpp # 3

None == <<>>

\* Values callers pass to __setitem__ / fill: in range, above 255, negative
Inputs ==
    { <<255, 0, 128>>, <<100, 100, 100>>, <<300, -5, 256>>, <<-1, 5, 25>> }

Indices == -MaxIndex..MaxIndex

Faults == 0..3

---------------------------------------------------------------------------
(* The operations *)

Init ==
    /\ obj = "none"
    /\ scaler = NoScaler
    /\ value = <<0, 0, 0>>
    /\ created = {}
    /\ duty = <<0, 0, 0>>
    /\ calls = <<>>
    /\ commits = 0
    /\ streak = 0
    /\ op = "start"
    /\ err = "none"
    /\ ret = None
    /\ arg = <<0, 0, 0>>
    /\ cfg = <<1, 3>>

\* Mutant: write() keeps the scaled value as the stored one
writeStoresScaled(sc, pixel, old, n, k, fault) ==
    /\ value' = Scaled(sc, pixel)
    /\ scaler' = sc
    /\ calls' = WriteCalls(sc, DutyValues(sc, pixel), fault)
    /\ duty' = DutyAfter(old, DutyValues(sc, pixel), fault)
    /\ commits' = n + 1
    /\ streak' = k + 1
    /\ err' = PWMError(fault)

\* The body of write() on an object with stored value pixel, scaler sc and
\* channels holding old, after n runs of which the last k followed the last
\* store: it reads the value, scales
\* and expands it, and calls duty() on red, green, blue in that order.
write(sc, pixel, old, n, k, fault) ==
    /\ value' = pixel
    /\ scaler' = sc
    /\ calls' = WriteCalls(sc, DutyValues(sc, pixel), fault)
    /\ duty' = DutyAfter(old, DutyValues(sc, pixel), fault)
    /\ commits' = n + 1
    /\ streak' = k + 1
    /\ err' = PWMError(fault)

\* Mutant: the constructor returns without calling write()
ConstructNoWrite(n, bpp, sc, fault) ==
    /\ obj = "none"
    /\ op' = "init"
    /\ ret' = None
    /\ arg' = <<0, 0, 0>>
    /\ cfg' = <<n, bpp>>
    /\ err' = IF ConfigError(n, bpp) THEN "ValueError" ELSE "none"
    /\ obj' = IF ConfigError(n, bpp) THEN "none" ELSE "live"
    /\ created' = IF ConfigError(n, bpp) THEN {} ELSE {"red", "green", "blue"}
    /\ scaler' = IF ConfigError(n, bpp) THEN NoScaler ELSE sc
    /\ value' = <<0, 0, 0>>
    /\ duty' = <<0, 0, 0>>
    /\ calls' = <<>>
    /\ commits' = 0
    /\ streak' = 0

\* RGBPixel(red, green, blue, n, bpp, scaler = sc): raises ValueError on n
\* or bpp before anything else; otherwise stores the scaler, creates the
\* three channels with value 0 and duty 0, and calls write().  An exception
\* of write() leaves the constructor, so no object comes to exist.
Construct(n, bpp, sc, fault) ==
    /\ obj = "none"
    /\ op' = "init"
    /\ ret' = None
    /\ arg' = <<0, 0, 0>>
    /\ cfg' = <<n, bpp>>
    /\ IF ConfigError(n, bpp)
       THEN /\ err' = "ValueError"
            /\ obj' = "none"
            /\ created' = {}
            /\ scaler' = NoScaler
            /\ value' = <<0, 0, 0>>
            /\ duty' = <<0, 0, 0>>
            /\ calls' = <<>>
            /\ commits' = 0
            /\ streak' = 0
       ELSE /\ created' = {"red", "green", "blue"}
            /\ write(sc, <<0, 0, 0>>, <<0, 0, 0>>, 0, 0, fault)
            /\ obj' = IF fault = 0 THEN "live" ELSE "none"

\* px.write()
Write(fault) ==
    /\ obj = "live"
    /\ commits < MaxCommits
    /\ op' = "write"
    /\ ret' = None
    /\ write(scaler, value, duty, commits, streak, fault)
    /\ UNCHANGED <<obj, created, arg, cfg>>

\* Mutant: a store that also pushes the value to the channels
setitemWriteThrough(by, index, v) ==
    /\ obj = "live"
    /\ op' = by
    /\ ret' = None
    /\ UNCHANGED <<obj, created, cfg>>
    /\ IF IndexOk(index)
       THEN /\ arg' = v
            /\ write(scaler, Stored(v), duty, commits, -1, 0)
       ELSE /\ err' = "IndexError"
            /\ UNCHANGED <<value, streak, arg, scaler, duty, calls, commits>>

\* self[index] = v, reached as px[index] = v (by = "set") or from fill
setitem(by, index, v) ==
    /\ obj = "live"
    /\ op' = by
    /\ ret' = None
    /\ IF IndexOk(index)
       THEN /\ value' = Stored(v)
            /\ arg' = v
            /\ streak' = 0
            /\ err' = "none"
       ELSE /\ err' = "IndexError"
            /\ UNCHANGED <<value, streak, arg>>
    /\ UNCHANGED <<obj, scaler, created, duty, calls, commits, cfg>>

\* px[index] = v
SetItem(index, v) == setitem("set", index, v)

\* px.fill(v): self[0] = v
Fill(v) == setitem("fill", 0, v)

\* px[index]
GetItem(index) ==
    /\ obj = "live"
    /\ op' = "get"
    /\ IF IndexOk(index)
       THEN /\ ret' = <<value[1], value[2], value[3]>>
            /\ err' = "none"
       ELSE /\ ret' = None
            /\ err' = "IndexError"
    /\ UNCHANGED <<obj, scaler, value, created, duty, calls, commits, streak, arg, cfg>>

\* len(px)
Len_ ==
    /\ obj = "live"
    /\ op' = "len"
    /\ ret' = <<1>>
    /\ err' = "none"
    /\ UNCHANGED <<obj, scaler, value, created, duty, calls, commits, streak, arg, cfg>>

Next ==
    \/ \E n \in -1..MaxN, bpp \in 1..MaxBpp, sc \in Scalers, fault \in Faults :
          Construct(n, bpp, sc, fault)
    \/ \E fault \in Faults : Write(fault)
    \/ \E index \in Indices, v \in Inputs : SetItem(index, v)
    \/ \E v \in Inputs : Fill(v)
    \/ \E index \in Indices : GetItem(index)
    \/ Len_

\* Every behaviour: a duty() call may raise
Spec == Init /\ [][Next]_vars

\* The channels never raise
NextNoFault ==
    \/ \E n \in -1..MaxN, bpp \in 1..MaxBpp, sc \in Scalers :
          Construct(n, bpp, sc, 0)
    \/ Write(0)
    \/ \E index \in Indices, v \in Inputs : SetItem(index, v)
    \/ \E v \in Inputs : Fill(v)
    \/ \E index \in Indices : GetItem(index)
    \/ Len_

SpecNoFault == Init /\ [][NextNoFault]_vars

---------------------------------------------------------------------------
(* Properties *)

\* The duty() calls among the collaborator calls c
DutyCalls(c) == SelectSeq(c, LAMBDA e : e.ch # "scaler")

\* The remainder of x modulo 256 that lies in 0..255, by its definition
Residue(x) == CHOOSE r \in 0..255 : \E q \in -4..4 : x = 256 * q + r

\* A write() ran in this step
WriteStep == op' = "write" /\ commits' = commits + 1

\* C1: get(0) immediately after set(0, v) or fill(v) returns, per channel,
\* the non-negative remainder of v modulo 256, also for components below 0
\* and above 255; and in every reachable state every stored channel value
\* is in 0..255.
C1_SetThenGet ==
    /\ [](\A i \in 1..3 : value[i] \in 0..255)
    /\ [][(/\ op \in {"set", "fill"} /\ err = "none"
           /\ op' = "get" /\ err' = "none")
          => ret' = <<Residue(arg[1]), Residue(arg[2]), Residue(arg[3])>>]_vars

C1_Witness ==
    /\ op = "get" /\ err = "none"
    /\ arg = <<300, -5, 256>>
    /\ ret = <<44, 251, 0>>

\* C2: after a successful commit the duty each channel holds, and the value
\* of the duty() call that delivered it, is (s << 2) | (s >> 6) of the
\* matching component s of the scaler's output for the stored colour: the
\* stored value with no scaler ((255,0,128) delivers 1023, 0, 514), the
\* rounded product with a linear scaler ((0.1,0.4,0.9) on (100,100,100)
\* delivers the expansions of 10, 40, 90), the returned triple with a
\* callable scaler (a channel swap delivers the swapped values).
C2_CommitDelivers ==
    (op \in {"write", "init"} /\ err = "none" /\ obj = "live") =>
        LET s == IF scaler.kind = "none" THEN value
                 ELSE IF scaler.kind = "linear"
                      THEN [i \in 1..3 |-> RoundMul(value[i], scaler.m[i])]
                      ELSE CallScaler(scaler.f, value)
            sent == DutyCalls(calls)
        IN  /\ Len(sent) = 3
            /\ \A i \in 1..3 :
                  /\ duty[i] = BitOr(s[i] * 4, Shr(s[i], 6))
                  /\ sent[i].val = duty[i]
                  /\ s[i] \in 0..255 => duty[i] = 4 * s[i] + (s[i] \div 64)
            /\ (scaler.kind = "none" /\ value = <<255, 0, 128>>)
                  => duty = <<1023, 0, 514>>
            /\ (scaler = LinearScaler(<<<<1, 10>>, <<4, 10>>, <<9, 10>>>>)
                  /\ value = <<100, 100, 100>>)
                  => duty = <<40, 160, 361>>
            /\ (scaler = FuncScaler("swap"))
                  => duty = <<4 * value[3] + (value[3] \div 64),
                              4 * value[2] + (value[2] \div 64),
                              4 * value[1] + (value[1] \div 64)>>

C2_Witness ==
    /\ op = "write" /\ err = "none"
    /\ scaler = FuncScaler("swap")
    /\ value = <<255, 0, 128>>
    /\ duty = <<514, 0, 1023>>

\* C3: set, fill, get and len never call duty() on a channel: in a step of
\* one of them the duty the three channels hold and the record of the last
\* commit's calls stay as they were, so only a commit changes a duty.
C3_OnlyCommitTouchesHardware ==
    /\ [][op' \in {"set", "fill", "get", "len"}
            => (duty' = duty /\ calls' = calls /\ commits' = commits)]_vars
    /\ [][duty' # duty => op' \in {"write", "init"}]_vars

C3_Witness ==
    /\ op = "fill" /\ err = "none"
    /\ scaler = NoScaler
    /\ value = <<255, 0, 128>>
    /\ commits = 2
    /\ duty = <<401, 401, 401>>

\* C4: get(index) and set(index, value) with an index other than 0,
\* positive or negative, raise IndexError, and the call leaves the stored
\* colour, the scaler, the channels' duty and the channels themselves as
\* they were.
C4_BadIndex ==
    [][obj = "live" =>
         \A index \in Indices \ {0} :
            (GetItem(index) \/ \E v \in Inputs : SetItem(index, v))
            => /\ err' = "IndexError"
               /\ value' = value
               /\ scaler' = scaler
               /\ duty' = duty
               /\ calls' = calls
               /\ created' = created
               /\ obj' = obj]_vars

C4_Witness ==
    /\ op = "set" /\ err = "IndexError"
    /\ value = <<255, 0, 128>>
    /\ arg = <<255, 0, 128>>
    /\ streak = 0
    /\ duty = <<0, 0, 0>>

\* C5: construction with n other than 1 or bpp other than 3 raises
\* ValueError and yields no object; no PWM channel has been created and no
\* duty() call made by the failed construction.
C5_InvalidConfiguration ==
    (op = "init" /\ (cfg[1] # 1 \/ cfg[2] # 3)) =>
        /\ err = "ValueError"
        /\ obj = "none"
        /\ created = {}
        /\ calls = <<>>
        /\ commits = 0

C5_Witness ==
    /\ op = "init" /\ err = "ValueError"
    /\ cfg = <<1, 4>>
    /\ obj = "none"
    /\ created = {}
    /\ calls = <<>>

\* C6, as claimed: on successful construction, whatever the scaler, the
\* stored colour is (0,0,0), exactly one commit has run, and each of the
\* three channels has received duty 0 as its last value.
C6_StartsOff_AsClaimed ==
    (op = "init" /\ err = "none") =>
        /\ value = <<0, 0, 0>>
        /\ commits = 1
        /\ duty = <<0, 0, 0>>
        /\ \A i \in 1..Len(calls) : calls[i].val = 0

\* C6, amended: on successful construction the stored colour is (0,0,0)
\* and exactly one commit has run, whatever the scaler; each channel has
\* received duty 0 as its last value when there is no scaler, a linear
\* scaler, or a callable scaler that returns (0,0,0) for (0,0,0).
C6_StartsOff ==
    (op = "init" /\ err = "none") =>
        /\ obj = "live"
        /\ value = <<0, 0, 0>>
        /\ commits = 1
        /\ Len(DutyCalls(calls)) = 3
        /\ (\/ scaler.kind \in {"none", "linear"}
            \/ (scaler.kind = "func" /\ CallScaler(scaler.f, <<0, 0, 0>>) = <<0, 0, 0>>))
           => /\ duty = <<0, 0, 0>>
              /\ \A i \in 1..Len(calls) : calls[i].val = 0

C6_Witness ==
    /\ op = "init" /\ err = "none"
    /\ scaler = FuncScaler("lumi")
    /\ commits = 1
    /\ Len(calls) = 4
    /\ duty = <<0, 0, 0>>

\* The stored values the inputs of the model lead to
StoredValues == {<<0, 0, 0>>} \cup {Stored(v) : v \in Inputs}

\* A scaler whose output for an 8-bit colour is an 8-bit colour: none,
\* multipliers in [0, 1], a callable that returns components in 0..255
EightBitScaler(sc) ==
    \/ sc.kind = "none"
    \/ sc.kind = "linear" /\ \A i \in 1..3 : 0 <= sc.m[i][1] /\ sc.m[i][1] <= sc.m[i][2]
    \/ sc.kind = "func"
          /\ \A p \in StoredValues : \A i \in 1..3 : CallScaler(sc.f, p)[i] \in 0..255

\* C7, as claimed: every value commit passes to a channel's duty() is in
\* 0..1023, in every reachable state and under any scaler.
C7_DutyRange_AsClaimed ==
    \A i \in 1..Len(calls) : calls[i].ch # "scaler" => calls[i].val \in 0..1023

\* C7, amended: every value commit passes to duty() is in 0..1023 when
\* there is no scaler, a linear scaler with multipliers in [0, 1], or a
\* callable scaler returning components in 0..255; with no scaler a stored
\* 0 is passed as 0 and a stored 255 as 1023.
C7_DutyRange ==
    /\ EightBitScaler(scaler) =>
          \A i \in 1..Len(calls) : calls[i].ch # "scaler" => calls[i].val \in 0..1023
    /\ (scaler.kind = "none" /\ op \in {"write", "init"} /\ obj = "live") =>
          \A i \in 1..Len(calls) :
              /\ value[i] = 0 => calls[i].val = 0
              /\ value[i] = 255 => calls[i].val = 1023

C7_Witness ==
    /\ op = "write"
    /\ scaler = LinearScaler(<<<<1, 2>>, <<1, 2>>, <<1, 1>>>>)
    /\ value = <<255, 5, 25>>
    /\ calls = <<Call("red", 514), Call("green", 8), Call("blue", 100)>>

\* C8: within one commit the duty() calls go to red, then green, then
\* blue: a successful commit makes exactly three, one per channel in that
\* order, a failed one a prefix of them; a callable scaler is called once,
\* before any of them.
C8_ChannelOrder ==
    LET sent == DutyCalls(calls)
    IN  /\ Len(sent) <= 3
        /\ \A i \in 1..Len(sent) : sent[i].ch = Channels[i]
        /\ \A i \in 1..Len(calls) : calls[i].ch = "scaler" => i = 1
        /\ (op \in {"write", "init"} /\ err = "none" /\ created # {}) =>
              /\ Len(sent) = 3
              /\ scaler.kind = "func" => (Len(calls) = 4 /\ calls[1].ch = "scaler")
              /\ scaler.kind # "func" => Len(calls) = 3

C8_Witness ==
    /\ op = "write" /\ err = "none"
    /\ scaler = FuncScaler("swap")
    /\ calls = <<Call("scaler", 0), Call("red", 514), Call("green", 0), Call("blue", 1023)>>

\* C9: when a channel's duty() raises during commit, commit raises at
\* once, without retry or rollback: the channels before the failing one
\* hold the new duty, the failing channel and those after it hold the duty
\* they held before and are not called again, the stored colour and the
\* scaler are unchanged; a commit that follows passes the same values.
C9_FailedCommit ==
    /\ [][(WriteStep /\ err' = "PWMError") =>
            LET sent == DutyCalls(calls')
                k == Len(sent)
            IN  /\ k \in 1..3
                /\ \A i \in 1..3 :
                      /\ i < k => duty'[i] = sent[i].val
                      /\ i >= k => duty'[i] = duty[i]
                /\ \A i \in 1..k : sent[i].ch = Channels[i]
                /\ value' = value
                /\ scaler' = scaler
                /\ obj' = obj]_vars
    /\ [][(WriteStep /\ op = "write" /\ err = "PWMError") =>
            LET before == DutyCalls(calls)
                after == DutyCalls(calls')
            IN  \A i \in 1..Len(before) :
                    i <= Len(after) => after[i] = before[i]]_vars

C9_Witness ==
    /\ op = "write" /\ err = "PWMError"
    /\ scaler = NoScaler
    /\ value = <<100, 100, 100>>
    /\ calls = <<Call("red", 401), Call("green", 401)>>
    /\ duty = <<401, 0, 0>>

===========================================================================
